---- MODULE Spec2Model ----
(***************************************************************************)
(* The MAVLink connection and synchronisation core of UAV-AI:              *)
(* MavlinkHandler (src/Mavlink_rx_handler.py), its subclass hook in        *)
(* DroneValidator (src/drone_validator.py), the connect sequence, the      *)
(* telemetry loops and the motor test endpoint of the web server           *)
(* (src/web_server.py), and the parameter delta of src/JARVIS.py.          *)
(*                                                                         *)
(* Python dicts are functions whose DOMAIN is the set of keys present.     *)
(* Each thread is a record with its position (pc); a `with lock:` block    *)
(* is one atomic action, and Condition.wait splits its block in two.       *)
(***************************************************************************)
EXTENDS Integers, Sequences, FiniteSets, TLC

(* ------------------------------ bounds -------------------------------- *)

\* messages the flight controller puts on the wire in one run of the
\* connection, command and parameter specifications
MaxConnMsgs == 3
MaxCmdMsgs == 3
MaxParamMsgs == 4
\* transports opened in one run (connect() calls that reach the open)
MaxConn == 2
\* dispatcher threads started in one run
MaxLoops == 2
\* update_parameter calls in one run
MaxUpdates == 1
\* messages on the wire in one run of the session specification
MaxSessionMsgs == 4
\* seconds of clock time in one run of the watchdog specification
MaxNow == 12
\* heartbeats on the wire in one run of the watchdog specification
MaxWatchMsgs == 2
\* messages on the wire in one run of the ring buffer specification
MaxRingMsgs == 102
\* messages on the wire in one run of the snapshot specification
MaxTelemMsgs == 3
\* COMMAND_ACKs on the wire in one run of the repeated command specification
MaxRepeatMsgs == 2
\* messages on the wire in one run of the motor test specification
MaxMotorMsgs == 2
\* messages on the wire in one run of the routing specification
MaxRouteMsgs == 4
\* messages on the wire and get_link_stats calls in one run of the link
\* statistics specification
MaxStatsMsgs == 3
MaxStatsCalls == 3

(* ------------------------- program constants -------------------------- *)

MAV_RESULT_ACCEPTED == 0
MAV_RESULT_TEMPORARILY_REJECTED == 1
MAV_RESULT_DENIED == 2
MAV_RESULT_UNSUPPORTED == 3
MAV_RESULT_FAILED == 4
MAV_RESULT_IN_PROGRESS == 5
MAV_RESULT_CANCELLED == 6

MAV_CMD_COMPONENT_ARM_DISARM == 400
MAV_CMD_NAV_LAND == 21
MAV_CMD_REQUEST_MESSAGE == 512
MAV_CMD_DO_MOTOR_TEST == 209

\* the armed bit of HEARTBEAT.base_mode
MAV_MODE_FLAG_SAFETY_ARMED == 128

\* deque(maxlen=100)
RxMaxLen == 100

\* time.time() - self.last_heartbeat > 5
HEARTBEAT_TIMEOUT_S == 5

\* the names send_mavlink_command_from_json resolves to a command id
\* (the three of the nine entries the callers of the model use)
mav_command_map ==
    ("MAV_CMD_COMPONENT_ARM_DISARM" :> MAV_CMD_COMPONENT_ARM_DISARM) @@
    ("MAV_CMD_DO_MOTOR_TEST" :> MAV_CMD_DO_MOTOR_TEST) @@
    ("MAV_CMD_NAV_LAND" :> MAV_CMD_NAV_LAND)

\* the results send_mavlink_command_from_json reports as success
SuccessResults ==
    {MAV_RESULT_ACCEPTED, MAV_RESULT_TEMPORARILY_REJECTED, MAV_RESULT_IN_PROGRESS}

(* ------------------------------ inputs -------------------------------- *)

Callers == {"c1", "c2"}
\* the two telemetry loops of the web server
Consumers == {"fast", "slow"}
CommandNames == {"MAV_CMD_COMPONENT_ARM_DISARM", "NOPE"}
Transports == 1..MaxConn
Loops == 1..MaxLoops

NoMsg == [type |-> "NONE"]
Heartbeat == [type |-> "HEARTBEAT"]
Attitude == [type |-> "ATTITUDE"]

\* a telemetry message of type t, the n-th message the flight controller sent
Telemetry(t, n) == [type |-> t, seq |-> n]

\* the telemetry stream of the snapshot specification: the two types in turn
TelemetryStream(n) == Telemetry(IF n % 2 = 1 THEN "ATTITUDE" ELSE "GPS_RAW_INT", n)

AckMsg(c, r) == [type |-> "COMMAND_ACK", command |-> c, result |-> r]

\* the COMMAND_ACKs the flight controller sends in the command specification:
\* the awaited command accepted or failed, and the reply to a command nobody
\* waits on (request_autopilot_version sends MAV_CMD_REQUEST_MESSAGE)
AckMsgs ==
    {AckMsg(MAV_CMD_COMPONENT_ARM_DISARM, MAV_RESULT_ACCEPTED),
     AckMsg(MAV_CMD_COMPONENT_ARM_DISARM, MAV_RESULT_FAILED),
     AckMsg(MAV_CMD_REQUEST_MESSAGE, MAV_RESULT_ACCEPTED)}

\* the acknowledgements of a command that is sent again after it failed
RepeatAckMsgs ==
    {AckMsg(MAV_CMD_COMPONENT_ARM_DISARM, MAV_RESULT_FAILED),
     AckMsg(MAV_CMD_COMPONENT_ARM_DISARM, MAV_RESULT_ACCEPTED)}

ParamNames == {"A", "B"}
ParamValues == {1, 2}
ParamCounts == {0, 2}

\* the index of a parameter in the flight controller's table
ParamIndex(n) == IF n = "A" THEN 0 ELSE 1

\* the parameter snapshots handed to _compute_param_delta: every table over
\* two names and two values, the empty table included
DeltaKeys == {"P1", "P2"}
DeltaValues == {1, 2}
ParamSnapshots == UNION {[ks -> DeltaValues] : ks \in SUBSET DeltaKeys}

ParamMsg(n, v, cnt) ==
    [type |-> "PARAM_VALUE", param_id |-> n, param_value |-> v,
     param_count |-> cnt, param_index |-> ParamIndex(n)]

ParamMsgs == {ParamMsg(n, v, cnt) : n \in ParamNames, v \in ParamValues, cnt \in ParamCounts}

\* what the flight controller sends over sessions that follow one another: the
\* heartbeat, one parameter of a table of two, the acknowledgement of a command
SessionMsgs ==
    {Heartbeat, ParamMsg("A", 1, 2),
     AckMsg(MAV_CMD_COMPONENT_ARM_DISARM, MAV_RESULT_ACCEPTED)}

\* len(msg.get_msgbuf()): the length of the MAVLink 1 frame of m, its payload
\* and 8 bytes of header and checksum
MsgBufLen(m) ==
    8 + (CASE m.type = "HEARTBEAT" -> 9
           [] m.type = "PARAM_VALUE" -> 25
           [] m.type = "COMMAND_ACK" -> 3
           [] m.type = "ATTITUDE" -> 28
           [] OTHER -> 30)

\* a HEARTBEAT with its base_mode: a disarmed and an armed vehicle in the
\* same mode (custom mode, stabilize and manual input enabled)
BaseModes == {81, 209}
HeartbeatMode(b) == [type |-> "HEARTBEAT", base_mode |-> b]

\* what the flight controller sends in the motor test specification
MotorMsgs ==
    {HeartbeatMode(b) : b \in BaseModes} \cup
    {AckMsg(MAV_CMD_DO_MOTOR_TEST, MAV_RESULT_ACCEPTED)}

\* the bodies of POST /api/motor_test, <<motor, throttle, duration>>: one
\* within the ranges and one outside for each field
MotorTestArgs == {<<1, 50, 5>>, <<5, 50, 5>>, <<1, 101, 5>>, <<1, 50, 11>>}

\* the thread of the request, as a caller of send_mavlink_command_from_json
MotorCaller == "c1"

\* one message of each kind the dispatcher tells apart, and one of another type
RouteMsgs == SessionMsgs \cup {Attitude}

(* ------------------------------- state -------------------------------- *)

VARIABLES
    \* MavlinkHandler fields
    mav_conn,               \* the transport in use, 0 for None
    is_connected,
    last_heartbeat,
    heartbeat_timeout_flag,
    params_dict,
    param_count,
    param_progress,         \* <<numerator, denominator>> of the percentage
    param_done,
    rx_mav_msg,
    tx_mav_msg,
    command_ack_status,
    pkt_count,              \* self._pkt_count
    byte_count,             \* self._byte_count
    rate_timestamp,         \* self._rate_timestamp
    pkt_rate,               \* self._pkt_rate, in tenths of a packet per second
    byte_rate,              \* self._byte_rate, in tenths of a byte per second
    ai_mavlink_ctx,
    telemetry_snapshot,     \* self._telemetry_snapshot
    \* threads
    ctl,                    \* the thread calling connect/start_message_loop/disconnect
    loop,                   \* the _message_loop threads
    watchdog,               \* running _check_heartbeat_timeout threads
    wdpc,                   \* per watchdog thread: its position in the loop body
    timesync,               \* running _timesync_loop threads
    call,                   \* the callers of send_mavlink_command_from_json
    upd,                    \* the update_parameter calls made so far
    cons,                   \* the consumers calling snapshot_rx_queue/flush_rx_queue
    \* web_server
    mavlink_buffer,         \* the global mavlink_buffer
    mt,                     \* the thread serving POST /api/motor_test
    \* JARVIS._compute_param_delta: its two arguments and what it returned
    old_params,
    new_params,
    delta,
    \* environment
    now,
    transport,              \* per transport: "unopened", "open", "closed"
    inbox,                  \* per transport: the message on the wire, or NoMsg
    sent,                   \* messages the flight controller has sent
    \* history
    hist

handlerVars == <<mav_conn, is_connected, last_heartbeat, heartbeat_timeout_flag>>
paramVars == <<params_dict, param_count, param_progress, param_done>>
telemVars == <<rx_mav_msg, pkt_count, byte_count>>
rateVars == <<rate_timestamp, pkt_rate, byte_rate>>
webVars == <<mavlink_buffer, mt>>
jarvisVars == <<old_params, new_params, delta>>
snapVars == <<ai_mavlink_ctx, telemetry_snapshot, cons>>
threadVars == <<ctl, loop, watchdog, wdpc, timesync>>
envVars == <<now, transport, inbox, sent>>

vars == <<mav_conn, is_connected, last_heartbeat, heartbeat_timeout_flag,
          params_dict, param_count, param_progress, param_done,
          rx_mav_msg, tx_mav_msg, command_ack_status, pkt_count, byte_count,
          rate_timestamp, pkt_rate, byte_rate, ai_mavlink_ctx, telemetry_snapshot,
          ctl, loop, watchdog, wdpc, timesync, call, upd, cons,
          mavlink_buffer, mt, old_params, new_params, delta,
          now, transport, inbox, sent, hist>>

(* ------------------------------ helpers ------------------------------- *)

\* dict.pop(k, None)
DictPop(d, k) == [x \in (DOMAIN d) \ {k} |-> d[x]]

\* d[k] = v
DictSet(d, k, v) == (k :> v) @@ d

EmptyDict == <<>>

\* a consumer outside snapshot_rx_queue, with no local ctx
IdleConsumer == [pc |-> "idle", ctx |-> EmptyDict]

\* no POST /api/motor_test has been made
IdleRequest == [pc |-> "idle", args |-> <<0, 0, 0>>, status |-> 0, why |-> "none"]

\* _compute_param_delta has not been called
NotCalled == [ret |-> "not_called", d |-> EmptyDict]

\* mutant of DequeAppend: a full buffer keeps what it has and drops the new message
DequeAppendDropNewest(q, x, n) ==
    IF Len(q) < n THEN Append(q, x) ELSE q

\* deque(maxlen=n).append(x)
DequeAppend(q, x, n) ==
    IF Len(q) < n THEN Append(q, x) ELSE Append(Tail(q), x)


(* ----------------------------- environment ---------------------------- *)

\* The flight controller puts message m on transport tr.
FcSend(tr, m, max) ==
    /\ transport[tr] = "open"
    /\ inbox[tr] = NoMsg
    /\ sent < max
    /\ inbox' = [inbox EXCEPT ![tr] = m]
    /\ sent' = sent + 1
    /\ UNCHANGED <<rateVars, webVars, jarvisVars>>
    /\ UNCHANGED <<handlerVars, paramVars, telemVars, snapVars, threadVars, tx_mav_msg,
                   command_ack_status, call, upd, now, transport, hist>>

\* The link of transport tr fails (cable pulled, socket reset).
TransportBreak(tr) ==
    /\ transport[tr] = "open"
    /\ transport' = [transport EXCEPT ![tr] = "broken"]
    /\ inbox' = [inbox EXCEPT ![tr] = NoMsg]
    /\ UNCHANGED <<rateVars, webVars, jarvisVars>>
    /\ UNCHANGED <<handlerVars, paramVars, telemVars, snapVars, threadVars, tx_mav_msg,
                   command_ack_status, call, upd, now, sent, hist>>

(* ----------------------- history (not program state) ------------------- *)

InFlight(c) == call[c].pc \in {"clear", "send", "check", "waiting", "woken"}

\* An ACK recorded now counts for the call of c: c has cleared the entry and
\* either has not returned yet or its wait timeout is still running.
InWindow(c) ==
    \/ call[c].pc \in {"send", "check", "waiting", "woken"}
    \/ call[c].pc = "done" /\ call[c].timer = "running"

HistAck(m) ==
    [hist EXCEPT !.acks = [c \in Callers |->
        IF call[c].id = m.command /\ InWindow(c)
        THEN hist.acks[c] \cup {m.result} ELSE hist.acks[c]]]

HistParam(h, m, fires) ==
    [h EXCEPT !.stream = Append(h.stream, <<m.param_id, m.param_value>>),
              !.counts = h.counts \cup {m.param_count},
              !.fired = h.fired + (IF fires THEN 1 ELSE 0),
              !.firedAt = IF fires THEN h.firedAt \cup {Len(h.stream) + 1} ELSE h.firedAt]

\* more than the heartbeat timeout has passed since last_heartbeat was written
Outage == now - last_heartbeat > HEARTBEAT_TIMEOUT_S

\* last_heartbeat is written: whatever outage there was is over
HistOutageOver(h) == [h EXCEPT !.polled = FALSE, !.raised = 0]

\* the dispatcher handles a HEARTBEAT
HistHeartbeat(h) == [HistOutageOver(h) EXCEPT !.hbAt = now]

\* a message is appended to the ring buffer
HistPush(h, m) ==
    [h EXCEPT !.pushed = Append(h.pushed, m), !.everPushed = TRUE, !.flushed = FALSE]

InSnapshot(c) == cons[c].pc \in {"build", "publish"}

\* consumer c takes its copy of the ring buffer: what the buffer holds at that
\* instant, whether another snapshot call is running, whether anything was
\* ever pushed and whether the buffer holds something; the map another consumer
\* has built and not yet published is from now on older than the copy of c
HistCopy(c) ==
    LET others == \E o \in Consumers \ {c} : InSnapshot(o)
    IN [hist EXCEPT !.older = [o \in Consumers |->
                                  IF o = c THEN {}
                                  ELSE IF cons[o].pc = "publish" THEN hist.older[o] \cup {c}
                                  ELSE hist.older[o]],
                    !.pubOlder = hist.pubOlder \ {c},
                    !.copyOf[c] = rx_mav_msg,
                    !.copies = hist.copies \cup {rx_mav_msg},
                    !.alone = [o \in Consumers |->
                                  IF o = c THEN ~others ELSE hist.alone[o] /\ ~InSnapshot(o)],
                    !.afterPush[c] = hist.everPushed,
                    !.full[c] = (rx_mav_msg # <<>>)]

\* consumer c publishes its map: the consumers whose copy is younger than the
\* copy this map was built from
HistPublish(c) ==
    [hist EXCEPT !.pubOlder = hist.older[c],
                 !.pub = [alone |-> hist.alone[c], copy |-> hist.copyOf[c],
                          afterPush |-> hist.afterPush[c], full |-> hist.full[c]]]

\* the ring buffer is flushed
HistFlush ==
    [hist EXCEPT !.pushed = <<>>, !.flushed = TRUE,
                 !.full = [c \in Consumers |-> hist.full[c] /\ ~InSnapshot(c)]]

\* a message is counted by the rate counters of _process_message
HistCount(h, m) ==
    [h EXCEPT !.win = [pkts |-> h.win.pkts + 1, bytes |-> h.win.bytes + MsgBufLen(m)]]

\* get_link_stats is called: a new window starts
HistStats ==
    [hist EXCEPT !.statsCalls = hist.statsCalls + 1,
                 !.win = [pkts |-> 0, bytes |-> 0],
                 !.winStart = now]

\* the connection drops while a caller is blocked in wait()
HistDrop(h) ==
    [h EXCEPT !.dropped = [c \in Callers |-> h.dropped[c] \/ call[c].pc = "waiting"]]

(* ---------------------- _process_message and below --------------------- *)

\* _process_parameter raises ZeroDivisionError at the progress computation
\* when the message announces param_count = 0
ParameterRaises(m) == m.param_count = 0

\* len(self.params_dict) >= self.param_count > 0, after the store
ParamsComplete(m) ==
    /\ m.param_count > 0
    /\ Cardinality(DOMAIN DictSet(params_dict, m.param_id, m.param_value)) >= m.param_count

\* mutant of ProcessParameter: a name already stored keeps its first value
ProcessParameterKeepFirst(m) ==
    /\ params_dict' = IF m.param_id \in DOMAIN params_dict THEN params_dict
                       ELSE DictSet(params_dict, m.param_id, m.param_value)
    /\ param_count' = m.param_count
    /\ param_progress' = IF ParameterRaises(m) THEN param_progress
                         ELSE <<(m.param_index + 1) * 100, m.param_count>>
    /\ param_done' = IF ~ParameterRaises(m) /\ ParamsComplete(m) THEN 1 ELSE param_done

\* _process_parameter, with DroneValidator.on_params_received as the hook
ProcessParameter(m) ==
    /\ params_dict' = DictSet(params_dict, m.param_id, m.param_value)
    /\ param_count' = m.param_count
    /\ param_progress' = IF ParameterRaises(m) THEN param_progress
                         ELSE <<(m.param_index + 1) * 100, m.param_count>>
    /\ param_done' = IF ~ParameterRaises(m) /\ ParamsComplete(m) THEN 1 ELSE param_done

\* notify_all(): every thread blocked in wait() is woken, whatever id it waits on
NotifyAll ==
    [c \in Callers |-> IF call[c].pc = "waiting"
                       THEN [call[c] EXCEPT !.pc = "woken"] ELSE call[c]]

\* the COMMAND_ACK branch of _process_message
ProcessCommandAck(m) ==
    /\ command_ack_status' = DictSet(command_ack_status, m.command, m.result)
    /\ call' = NotifyAll

\* mutant of ProcessMessage: only a message of another type is put in the ring buffer
ProcessMessagePushOthers(t, m) ==
    /\ pkt_count' = pkt_count + 1
    /\ byte_count' = byte_count + MsgBufLen(m)
    /\ rx_mav_msg' = IF m.type \in {"HEARTBEAT", "PARAM_VALUE", "COMMAND_ACK"}
                     THEN rx_mav_msg ELSE DequeAppend(rx_mav_msg, m, RxMaxLen)
    /\ IF m.type = "HEARTBEAT"
       THEN last_heartbeat' = now /\ heartbeat_timeout_flag' = FALSE
       ELSE UNCHANGED <<last_heartbeat, heartbeat_timeout_flag>>
    /\ IF m.type = "PARAM_VALUE"
       THEN ProcessParameter(m)
       ELSE UNCHANGED paramVars
    /\ IF m.type = "COMMAND_ACK"
       THEN ProcessCommandAck(m)
       ELSE UNCHANGED <<command_ack_status, call>>
    /\ IF m.type = "PARAM_VALUE" /\ ParameterRaises(m)
       THEN /\ is_connected' = FALSE
            /\ loop' = [loop EXCEPT ![t] = [pc |-> "done", tr |-> 0, msg |-> NoMsg]]
       ELSE /\ is_connected' = is_connected
            /\ loop' = [loop EXCEPT ![t] = [pc |-> "check", tr |-> 0, msg |-> NoMsg]]
    /\ hist' = LET h0 == HistCount(IF m.type = "HEARTBEAT" THEN HistHeartbeat(hist) ELSE hist, m)
                   h1 == HistPush(IF m.type = "COMMAND_ACK"
                                  THEN [h0 EXCEPT !.acks = HistAck(m).acks] ELSE h0, m)
                   h2 == IF m.type = "PARAM_VALUE"
                         THEN HistParam(h1, m, ~ParameterRaises(m) /\ ParamsComplete(m))
                         ELSE h1
               IN IF m.type = "PARAM_VALUE" /\ ParameterRaises(m) THEN HistDrop(h2) ELSE h2

\* _process_message(msg), run by dispatcher thread t; an exception leaves
\* _message_loop through its except/finally, which sets is_connected = False
ProcessMessage(t, m) ==
    /\ pkt_count' = pkt_count + 1
    /\ byte_count' = byte_count + MsgBufLen(m)
    /\ rx_mav_msg' = DequeAppend(rx_mav_msg, m, RxMaxLen)
    /\ IF m.type = "HEARTBEAT"
       THEN last_heartbeat' = now /\ heartbeat_timeout_flag' = FALSE
       ELSE UNCHANGED <<last_heartbeat, heartbeat_timeout_flag>>
    /\ IF m.type = "PARAM_VALUE"
       THEN ProcessParameter(m)
       ELSE UNCHANGED paramVars
    /\ IF m.type = "COMMAND_ACK"
       THEN ProcessCommandAck(m)
       ELSE UNCHANGED <<command_ack_status, call>>
    /\ IF m.type = "PARAM_VALUE" /\ ParameterRaises(m)
       THEN /\ is_connected' = FALSE
            /\ loop' = [loop EXCEPT ![t] = [pc |-> "done", tr |-> 0, msg |-> NoMsg]]
       ELSE /\ is_connected' = is_connected
            /\ loop' = [loop EXCEPT ![t] = [pc |-> "check", tr |-> 0, msg |-> NoMsg]]
    /\ hist' = LET h0 == HistCount(IF m.type = "HEARTBEAT" THEN HistHeartbeat(hist) ELSE hist, m)
                   h1 == HistPush(IF m.type = "COMMAND_ACK"
                                  THEN [h0 EXCEPT !.acks = HistAck(m).acks] ELSE h0, m)
                   h2 == IF m.type = "PARAM_VALUE"
                         THEN HistParam(h1, m, ~ParameterRaises(m) /\ ParamsComplete(m))
                         ELSE h1
               IN IF m.type = "PARAM_VALUE" /\ ParameterRaises(m) THEN HistDrop(h2) ELSE h2

(* ---------------------------- _message_loop ---------------------------- *)

\* while self.is_connected: ... ; finally: self.is_connected = False
LoopCheck(t) ==
    /\ loop[t].pc = "check"
    /\ IF is_connected
       THEN /\ loop' = [loop EXCEPT ![t] = [pc |-> "recv", tr |-> mav_conn, msg |-> NoMsg]]
            /\ UNCHANGED <<is_connected, hist>>
       ELSE /\ loop' = [loop EXCEPT ![t] = [pc |-> "done", tr |-> 0, msg |-> NoMsg]]
            /\ is_connected' = FALSE
            /\ hist' = HistDrop(hist)
    /\ UNCHANGED <<rateVars, webVars, jarvisVars>>
    /\ UNCHANGED <<mav_conn, last_heartbeat, heartbeat_timeout_flag, paramVars, telemVars, snapVars,
                   tx_mav_msg, command_ack_status, ctl, watchdog, wdpc, timesync, call, upd, envVars>>

\* recv_match(blocking=True, timeout=0.5) returns a message
LoopRecvMsg(t) ==
    /\ loop[t].pc = "recv"
    /\ transport[loop[t].tr] = "open"
    /\ inbox[loop[t].tr] # NoMsg
    /\ loop' = [loop EXCEPT ![t].pc = "process", ![t].msg = inbox[loop[t].tr]]
    /\ inbox' = [inbox EXCEPT ![loop[t].tr] = NoMsg]
    /\ UNCHANGED <<rateVars, webVars, jarvisVars>>
    /\ UNCHANGED <<handlerVars, paramVars, telemVars, snapVars, tx_mav_msg, command_ack_status,
                   ctl, watchdog, wdpc, timesync, call, upd, now, transport, sent, hist>>

\* recv_match returns None after its timeout: nothing arrived
LoopRecvTimeout(t) ==
    /\ loop[t].pc = "recv"
    /\ transport[loop[t].tr] # "open" \/ inbox[loop[t].tr] = NoMsg
    /\ loop' = [loop EXCEPT ![t] = [pc |-> "check", tr |-> 0, msg |-> NoMsg]]
    /\ UNCHANGED <<rateVars, webVars, jarvisVars>>
    /\ UNCHANGED <<handlerVars, paramVars, telemVars, snapVars, tx_mav_msg, command_ack_status,
                   ctl, watchdog, wdpc, timesync, call, upd, envVars, hist>>

\* recv_match raises (the port was closed or the link failed): except, finally
LoopRecvError(t) ==
    /\ loop[t].pc = "recv"
    /\ transport[loop[t].tr] # "open"
    /\ loop' = [loop EXCEPT ![t] = [pc |-> "done", tr |-> 0, msg |-> NoMsg]]
    /\ is_connected' = FALSE
    /\ hist' = HistDrop(hist)
    /\ UNCHANGED <<rateVars, webVars, jarvisVars>>
    /\ UNCHANGED <<mav_conn, last_heartbeat, heartbeat_timeout_flag, paramVars, telemVars, snapVars,
                   tx_mav_msg, command_ack_status, ctl, watchdog, wdpc, timesync, call, upd, envVars>>

\* self._process_message(msg)
LoopProcess(t) ==
    /\ loop[t].pc = "process"
    /\ ProcessMessage(t, loop[t].msg)
    /\ UNCHANGED <<rateVars, webVars, jarvisVars>>
    /\ UNCHANGED <<mav_conn, tx_mav_msg, snapVars, ctl, watchdog, wdpc, timesync, upd, envVars>>


(* -------------------- send_mavlink_command_from_json ------------------- *)

Returned(c, ret, branch) == [call[c] EXCEPT !.pc = "done", !.ret = ret, !.branch = branch]

\* the if/else over the recorded result that ends the call
AckOutcome(c) ==
    IF call[c].id \in DOMAIN command_ack_status
    THEN IF command_ack_status[call[c].id] \in SuccessResults
         THEN Returned(c, TRUE, "ack")
         ELSE Returned(c, FALSE, "nack")
    ELSE Returned(c, FALSE, "timeout")

\* mutant of CallBegin: the command is logged as sent before its name is looked up
CallBeginLogFirst(c, name) ==
    /\ call[c].pc = "idle"
    /\ call' = [call EXCEPT ![c] =
            IF ~is_connected THEN [Returned(c, FALSE, "notconn") EXCEPT !.name = name]
            ELSE IF name \notin DOMAIN mav_command_map
                 THEN [Returned(c, FALSE, "unknown") EXCEPT !.name = name]
                 ELSE [call[c] EXCEPT !.pc = "clear", !.name = name,
                                      !.id = mav_command_map[name]]]
    /\ tx_mav_msg' = IF is_connected
                     THEN Append(tx_mav_msg, <<"COMMAND_SENT", name>>) ELSE tx_mav_msg
    /\ hist' = IF \E o \in Callers \ {c} : InFlight(o)
               THEN [hist EXCEPT !.overlap = TRUE] ELSE hist
    /\ UNCHANGED <<rateVars, webVars, jarvisVars>>
    /\ UNCHANGED <<handlerVars, paramVars, telemVars, snapVars, threadVars,
                   command_ack_status, upd, envVars>>

\* the connection check and the lookup of the command name
CallBegin(c, name) ==
    /\ call[c].pc = "idle"
    /\ call' = [call EXCEPT ![c] =
            IF ~is_connected THEN [Returned(c, FALSE, "notconn") EXCEPT !.name = name]
            ELSE IF name \notin DOMAIN mav_command_map
                 THEN [Returned(c, FALSE, "unknown") EXCEPT !.name = name]
                 ELSE [call[c] EXCEPT !.pc = "clear", !.name = name,
                                      !.id = mav_command_map[name]]]
    /\ hist' = IF \E o \in Callers \ {c} : InFlight(o)
               THEN [hist EXCEPT !.overlap = TRUE] ELSE hist
    /\ UNCHANGED <<rateVars, webVars, jarvisVars>>
    /\ UNCHANGED <<handlerVars, paramVars, telemVars, snapVars, threadVars, tx_mav_msg,
                   command_ack_status, upd, envVars>>

\* mutant of CallClear: the entry of an earlier call is left in the map
CallClearKeep(c) ==
    /\ call[c].pc = "clear"
    /\ command_ack_status' = command_ack_status
    /\ call' = [call EXCEPT ![c].pc = "send"]
    /\ UNCHANGED <<rateVars, webVars, jarvisVars>>
    /\ UNCHANGED <<handlerVars, paramVars, telemVars, snapVars, threadVars, tx_mav_msg,
                   upd, envVars, hist>>

\* with self.command_ack_condition: self.command_ack_status.pop(id, None)
CallClear(c) ==
    /\ call[c].pc = "clear"
    /\ command_ack_status' = DictPop(command_ack_status, call[c].id)
    /\ call' = [call EXCEPT ![c].pc = "send"]
    /\ UNCHANGED <<rateVars, webVars, jarvisVars>>
    /\ UNCHANGED <<handlerVars, paramVars, telemVars, snapVars, threadVars, tx_mav_msg,
                   upd, envVars, hist>>

\* command_long_send and the tx log; a send on a closed transport raises
CallSend(c) ==
    /\ call[c].pc = "send"
    /\ IF mav_conn # 0 /\ transport[mav_conn] = "open"
       THEN /\ tx_mav_msg' = Append(tx_mav_msg, <<"COMMAND_SENT", call[c].name>>)
            /\ call' = [call EXCEPT ![c].pc = "check"]
       ELSE /\ tx_mav_msg' = tx_mav_msg
            /\ call' = [call EXCEPT ![c] = Returned(c, FALSE, "senderr")]
    /\ UNCHANGED <<rateVars, webVars, jarvisVars>>
    /\ UNCHANGED <<handlerVars, paramVars, telemVars, snapVars, threadVars,
                   command_ack_status, upd, envVars, hist>>

\* the second `with` block up to wait(): wait only when no result is recorded
CallCheck(c) ==
    /\ call[c].pc = "check"
    /\ call' = [call EXCEPT ![c] =
            IF call[c].id \in DOMAIN command_ack_status
            THEN AckOutcome(c)
            ELSE [call[c] EXCEPT !.pc = "waiting", !.timer = "running"]]
    /\ UNCHANGED <<rateVars, webVars, jarvisVars>>
    /\ UNCHANGED <<handlerVars, paramVars, telemVars, snapVars, threadVars, tx_mav_msg,
                   command_ack_status, upd, envVars, hist>>

\* the timeout of wait(timeout=5) elapses
WaitTimeout(c) ==
    /\ call[c].timer = "running"
    /\ call' = [call EXCEPT ![c].timer = "elapsed",
                            ![c].pc = IF call[c].pc = "waiting" THEN "woken" ELSE call[c].pc]
    /\ UNCHANGED <<rateVars, webVars, jarvisVars>>
    /\ UNCHANGED <<handlerVars, paramVars, telemVars, snapVars, threadVars, tx_mav_msg,
                   command_ack_status, upd, envVars, hist>>

\* wait() has returned (notified or timed out): read the result once and return
CallAfterWait(c) ==
    /\ call[c].pc = "woken"
    /\ call' = [call EXCEPT ![c] = AckOutcome(c)]
    /\ hist' = IF call[c].timer = "running"
               THEN [hist EXCEPT !.early = hist.early \cup {c}] ELSE hist
    /\ UNCHANGED <<rateVars, webVars, jarvisVars>>
    /\ UNCHANGED <<handlerVars, paramVars, telemVars, snapVars, threadVars, tx_mav_msg,
                   command_ack_status, upd, envVars>>

(* --------------------------- update_parameter -------------------------- *)

\* mutant of UpdateParameter: the sent value is also written to the local table
UpdateParameterOptimistic(name, value) ==
    /\ upd.n < MaxUpdates
    /\ IF ~is_connected
       THEN /\ upd' = [n |-> upd.n + 1, ret |-> "notconn", name |-> name, value |-> value]
            /\ UNCHANGED <<tx_mav_msg, params_dict>>
       ELSE IF mav_conn # 0 /\ transport[mav_conn] = "open"
            THEN /\ upd' = [n |-> upd.n + 1, ret |-> "sent", name |-> name, value |-> value]
                 /\ tx_mav_msg' = Append(tx_mav_msg, <<"PARAM_SET", name>>)
                 /\ params_dict' = DictSet(params_dict, name, value)
            ELSE /\ upd' = [n |-> upd.n + 1, ret |-> "raised", name |-> name, value |-> value]
                 /\ UNCHANGED <<tx_mav_msg, params_dict>>
    /\ UNCHANGED <<rateVars, webVars, jarvisVars>>
    /\ UNCHANGED <<handlerVars, param_count, param_progress, param_done, telemVars, snapVars,
                   threadVars, command_ack_status, call, envVars, hist>>

\* update_parameter(name, value): not connected, sent, or the send raises
UpdateParameter(name, value) ==
    /\ upd.n < MaxUpdates
    /\ IF ~is_connected
       THEN /\ upd' = [n |-> upd.n + 1, ret |-> "notconn", name |-> name, value |-> value]
            /\ tx_mav_msg' = tx_mav_msg
       ELSE IF mav_conn # 0 /\ transport[mav_conn] = "open"
            THEN /\ upd' = [n |-> upd.n + 1, ret |-> "sent", name |-> name, value |-> value]
                 /\ tx_mav_msg' = Append(tx_mav_msg, <<"PARAM_SET", name>>)
            ELSE /\ upd' = [n |-> upd.n + 1, ret |-> "raised", name |-> name, value |-> value]
                 /\ tx_mav_msg' = tx_mav_msg
    /\ UNCHANGED <<rateVars, webVars, jarvisVars>>
    /\ UNCHANGED <<handlerVars, paramVars, telemVars, snapVars, threadVars,
                   command_ack_status, call, envVars, hist>>


(* ----------------- snapshot_rx_queue and flush_rx_queue ----------------- *)

\* ctx = {}; for m in q: ctx[m["mavpackettype"]] = m
RECURSIVE FoldLatest(_, _)
FoldLatest(ctx, q) ==
    IF q = <<>> THEN ctx
    ELSE FoldLatest(DictSet(ctx, Head(q).type, Head(q)), Tail(q))

\* mutant of LatestPerType: the first message of a type is kept
FirstPerType(q) ==
    LET types == {q[i].type : i \in 1..Len(q)}
    IN [t \in types |-> q[CHOOSE i \in 1..Len(q) :
                              q[i].type = t /\ \A j \in 1..(i - 1) : q[j].type # t]]

LatestPerType(q) == FoldLatest(EmptyDict, q)

\* mutant of SnapshotCopy: the copy leaves out the oldest message
SnapshotCopySkipOldest(c) ==
    /\ cons[c].pc = "idle"
    /\ telemetry_snapshot' = IF rx_mav_msg = <<>> THEN <<>> ELSE Tail(rx_mav_msg)
    /\ cons' = [cons EXCEPT ![c].pc = "build"]
    /\ hist' = HistCopy(c)
    /\ UNCHANGED <<rateVars, webVars, jarvisVars>>
    /\ UNCHANGED <<handlerVars, paramVars, telemVars, ai_mavlink_ctx, threadVars, tx_mav_msg,
                   command_ack_status, call, upd, envVars>>

\* snapshot_rx_queue(), first statement:
\* with self._rx_mav_lock: self._telemetry_snapshot = list(self.rx_mav_msg)
SnapshotCopy(c) ==
    /\ cons[c].pc = "idle"
    /\ telemetry_snapshot' = rx_mav_msg
    /\ cons' = [cons EXCEPT ![c].pc = "build"]
    /\ hist' = HistCopy(c)
    /\ UNCHANGED <<rateVars, webVars, jarvisVars>>
    /\ UNCHANGED <<handlerVars, paramVars, telemVars, ai_mavlink_ctx, threadVars, tx_mav_msg,
                   command_ack_status, call, upd, envVars>>

\* mutant of SnapshotBuild: the published map is updated in place
SnapshotBuildIncremental(c) ==
    /\ cons[c].pc = "build"
    /\ cons' = [cons EXCEPT ![c] = [pc |-> "publish",
                                    ctx |-> FoldLatest(ai_mavlink_ctx, telemetry_snapshot)]]
    /\ UNCHANGED <<rateVars, webVars, jarvisVars>>
    /\ UNCHANGED <<handlerVars, paramVars, telemVars, ai_mavlink_ctx, telemetry_snapshot,
                   threadVars, tx_mav_msg, command_ack_status, call, upd, envVars, hist>>

\* snapshot_rx_queue(), the loop: the local ctx is built from the list that
\* self._telemetry_snapshot refers to when the loop starts
SnapshotBuild(c) ==
    /\ cons[c].pc = "build"
    /\ cons' = [cons EXCEPT ![c] = [pc |-> "publish",
                                    ctx |-> LatestPerType(telemetry_snapshot)]]
    /\ UNCHANGED <<rateVars, webVars, jarvisVars>>
    /\ UNCHANGED <<handlerVars, paramVars, telemVars, ai_mavlink_ctx, telemetry_snapshot,
                   threadVars, tx_mav_msg, command_ack_status, call, upd, envVars, hist>>

\* snapshot_rx_queue(), last statement: self.ai_mavlink_ctx = ctx
SnapshotPublish(c) ==
    /\ cons[c].pc = "publish"
    /\ ai_mavlink_ctx' = cons[c].ctx
    /\ cons' = [cons EXCEPT ![c] = [pc |-> "read", ctx |-> EmptyDict]]
    /\ hist' = HistPublish(c)
    /\ UNCHANGED <<rateVars, webVars, jarvisVars>>
    /\ UNCHANGED <<handlerVars, paramVars, telemVars, telemetry_snapshot, threadVars,
                   tx_mav_msg, command_ack_status, call, upd, envVars>>

\* the statement of the telemetry loop that follows the call: the fast loop
\* reads validator.ai_mavlink_ctx into a local, the slow loop copies it to
\* the global mavlink_buffer
TelemetryLoopRead(c) ==
    /\ cons[c].pc = "read"
    /\ cons' = [cons EXCEPT ![c] = IdleConsumer]
    /\ mavlink_buffer' = IF c = "slow" THEN ai_mavlink_ctx ELSE mavlink_buffer
    /\ UNCHANGED <<rateVars, mt, jarvisVars>>
    /\ UNCHANGED <<handlerVars, paramVars, telemVars, ai_mavlink_ctx, telemetry_snapshot,
                   threadVars, tx_mav_msg, command_ack_status, call, upd, envVars, hist>>

\* flush_rx_queue(): with self._rx_mav_lock: self.rx_mav_msg.clear()
FlushRxQueue(c) ==
    /\ cons[c].pc = "idle"
    /\ rx_mav_msg' = <<>>
    /\ hist' = HistFlush
    /\ UNCHANGED <<rateVars, webVars, jarvisVars>>
    /\ UNCHANGED <<handlerVars, paramVars, pkt_count, byte_count, snapVars, threadVars, tx_mav_msg,
                   command_ack_status, call, upd, envVars>>


(* ------------------------- POST /api/motor_test ------------------------ *)

\* x & 128
BitAnd128(x) == ((x \div MAV_MODE_FLAG_SAFETY_ARMED) % 2) * MAV_MODE_FLAG_SAFETY_ARMED

\* hb = mavlink_buffer.get("HEARTBEAT"); hb and (hb.get("base_mode", 0) & 128)
BufferArmed ==
    /\ "HEARTBEAT" \in DOMAIN mavlink_buffer
    /\ LET hb == mavlink_buffer["HEARTBEAT"]
       IN BitAnd128(IF "base_mode" \in DOMAIN hb THEN hb.base_mode ELSE 0) # 0

\* the three input checks
ArgsValid(args) ==
    /\ args[1] \in {1, 2, 3, 4}
    /\ ~(args[2] < 0 \/ args[2] > 100)
    /\ ~(args[3] < 1 \/ args[3] > 10)

Answered(args, status, why) == [pc |-> "done", args |-> args, status |-> status, why |-> why]

\* motor_test() up to the call of send_mavlink_command_from_json: the
\* connection check, the armed check on mavlink_buffer, the input checks
MotorTest(args) ==
    /\ mt.pc = "idle"
    /\ mt' = IF ~is_connected THEN Answered(args, 400, "not_connected")
             ELSE IF BufferArmed THEN Answered(args, 400, "armed")
             ELSE IF ~ArgsValid(args) THEN Answered(args, 400, "bad_input")
             ELSE [pc |-> "call", args |-> args, status |-> 0, why |-> "none"]
    /\ UNCHANGED <<rateVars, mavlink_buffer, jarvisVars>>
    /\ UNCHANGED <<handlerVars, paramVars, telemVars, snapVars, threadVars, tx_mav_msg,
                   command_ack_status, call, upd, envVars, hist>>

\* success = validator.send_mavlink_command_from_json(command_json): the call begins
MotorTestCall ==
    /\ mt.pc = "call"
    /\ CallBegin(MotorCaller, "MAV_CMD_DO_MOTOR_TEST")

\* the call has returned: 200 on success, 500 otherwise
MotorTestReturn ==
    /\ mt.pc = "call"
    /\ call[MotorCaller].pc = "done"
    /\ mt' = IF call[MotorCaller].ret THEN Answered(mt.args, 200, "started")
             ELSE Answered(mt.args, 500, "rejected_or_timed_out")
    /\ UNCHANGED <<rateVars, mavlink_buffer, jarvisVars>>
    /\ UNCHANGED <<handlerVars, paramVars, telemVars, snapVars, threadVars, tx_mav_msg,
                   command_ack_status, call, upd, envVars, hist>>

(* ------------------------------ get_link_stats ------------------------ *)

\* round(n / d, 1), in tenths: to the nearest tenth, a tie to the even one
RoundTenths(n, d) ==
    LET q == (10 * n) \div d
        r == (10 * n) % d
    IN IF 2 * r < d THEN q
       ELSE IF 2 * r > d THEN q + 1
       ELSE IF q % 2 = 0 THEN q ELSE q + 1

\* get_link_stats(): the clock counts whole seconds, so elapsed < 0.1 is
\* a call in the same second as the start of the window
GetLinkStats ==
    /\ hist.statsCalls < MaxStatsCalls
    /\ LET elapsed == now - rate_timestamp
       IN IF 10 * elapsed < 1
          THEN UNCHANGED <<pkt_rate, byte_rate, pkt_count, byte_count, rate_timestamp>>
          ELSE /\ pkt_rate' = RoundTenths(pkt_count, elapsed)
               /\ byte_rate' = RoundTenths(byte_count, elapsed)
               /\ pkt_count' = 0
               /\ byte_count' = 0
               /\ rate_timestamp' = now
    /\ hist' = HistStats
    /\ UNCHANGED <<webVars, jarvisVars>>
    /\ UNCHANGED <<handlerVars, paramVars, rx_mav_msg, snapVars, threadVars, tx_mav_msg,
                   command_ack_status, call, upd, envVars>>

(* ----------------------- JARVIS._compute_param_delta ------------------- *)

\* a number and a string as values of a delta entry
Num(n) == <<"num", n>>
Str(x) == <<"str", x>>

\* return None
None == [ret |-> "none", d |-> EmptyDict]

\* the dict built by the two loops: changed or added keys, then removed keys
DeltaDict(old, new) ==
    LET changed == {k \in DOMAIN new : k \notin DOMAIN old \/ old[k] # new[k]}
        removed == {k \in DOMAIN old : k \notin DOMAIN new}
    IN [k \in changed \cup removed |->
           IF k \in changed
           THEN [old |-> IF k \in DOMAIN old THEN Num(old[k]) ELSE Str("<new>"),
                 new |-> Num(new[k])]
           ELSE [old |-> Num(old[k]), new |-> Str("<removed>")]]

\* _compute_param_delta(old_params, new_params)
ComputeParamDelta(old, new) ==
    IF old = EmptyDict THEN None
    ELSE IF new = EmptyDict THEN None
    ELSE IF DeltaDict(old, new) = EmptyDict THEN None
    ELSE [ret |-> "dict", d |-> DeltaDict(old, new)]

\* a call of _compute_param_delta with the two snapshots at hand
CallComputeParamDelta ==
    /\ delta = NotCalled
    /\ delta' = ComputeParamDelta(old_params, new_params)
    /\ UNCHANGED <<old_params, new_params, rateVars, webVars>>
    /\ UNCHANGED <<handlerVars, paramVars, telemVars, snapVars, threadVars, tx_mav_msg,
                   command_ack_status, call, upd, envVars, hist>>

(* ------------------ connect, start_message_loop, disconnect ------------ *)

\* The calling thread follows connect_drone of the web server (and main):
\* connect() is called on a handler that is not connected, and a successful
\* connect() is followed by start_message_loop().

\* mutant of ConnectOpen: connected as soon as the transport is open
ConnectOpenOptimistic ==
    /\ ctl.pc = "idle"
    /\ ~is_connected
    /\ \E tr \in Transports :
        /\ transport[tr] = "unopened"
        /\ \A o \in Transports : o < tr => transport[o] # "unopened"
        /\ mav_conn' = tr
        /\ transport' = [transport EXCEPT ![tr] = "open"]
    /\ is_connected' = TRUE
    /\ ctl' = [pc |-> "wait_hb", ret |-> "none"]
    /\ UNCHANGED <<rateVars, webVars, jarvisVars>>
    /\ UNCHANGED <<last_heartbeat, heartbeat_timeout_flag, paramVars, telemVars, snapVars,
                   tx_mav_msg, command_ack_status, loop, watchdog, wdpc, timesync, call, upd,
                   now, inbox, sent, hist>>

\* mavutil.mavlink_connection(...) opens a new transport
ConnectOpen ==
    /\ ctl.pc = "idle"
    /\ ~is_connected
    /\ \E tr \in Transports :
        /\ transport[tr] = "unopened"
        /\ \A o \in Transports : o < tr => transport[o] # "unopened"
        /\ mav_conn' = tr
        /\ transport' = [transport EXCEPT ![tr] = "open"]
    /\ ctl' = [pc |-> "wait_hb", ret |-> "none"]
    /\ UNCHANGED <<rateVars, webVars, jarvisVars>>
    /\ UNCHANGED <<is_connected, last_heartbeat, heartbeat_timeout_flag, paramVars, telemVars, snapVars,
                   tx_mav_msg, command_ack_status, loop, watchdog, wdpc, timesync, call, upd,
                   now, inbox, sent, hist>>

\* mavutil.mavlink_connection(...) raises: connect() returns False
ConnectOpenFail ==
    /\ ctl.pc = "idle"
    /\ ~is_connected
    /\ ctl' = [pc |-> "idle", ret |-> "open_failed"]
    /\ UNCHANGED <<rateVars, webVars, jarvisVars>>
    /\ UNCHANGED <<handlerVars, paramVars, telemVars, snapVars, tx_mav_msg, command_ack_status,
                   loop, watchdog, wdpc, timesync, call, upd, envVars, hist>>

\* wait_heartbeat() reads and drops a message that is not a HEARTBEAT
ConnectSkip ==
    /\ ctl.pc = "wait_hb"
    /\ transport[mav_conn] = "open"
    /\ inbox[mav_conn] \notin {NoMsg, Heartbeat}
    /\ inbox' = [inbox EXCEPT ![mav_conn] = NoMsg]
    /\ UNCHANGED <<rateVars, webVars, jarvisVars>>
    /\ UNCHANGED <<handlerVars, paramVars, telemVars, snapVars, threadVars, tx_mav_msg,
                   command_ack_status, call, upd, now, transport, sent, hist>>

\* wait_heartbeat() returns: the rest of connect() up to return True
ConnectHeartbeat ==
    /\ ctl.pc = "wait_hb"
    /\ transport[mav_conn] = "open"
    /\ inbox[mav_conn] = Heartbeat
    /\ inbox' = [inbox EXCEPT ![mav_conn] = NoMsg]
    /\ last_heartbeat' = now
    /\ is_connected' = TRUE
    /\ watchdog' = watchdog \cup {mav_conn}
    /\ wdpc' = [wdpc EXCEPT ![mav_conn] = "poll"]
    /\ timesync' = timesync \cup {mav_conn}
    /\ ctl' = [pc |-> "start", ret |-> "connected"]
    /\ hist' = [HistOutageOver(hist) EXCEPT !.hbSeen = hist.hbSeen \cup {mav_conn}]
    /\ UNCHANGED <<rateVars, webVars, jarvisVars>>
    /\ UNCHANGED <<mav_conn, heartbeat_timeout_flag, paramVars, telemVars, snapVars, tx_mav_msg,
                   command_ack_status, loop, call, upd, now, transport, sent>>

\* wait_heartbeat() raises: connect() returns False
ConnectWaitFail ==
    /\ ctl.pc = "wait_hb"
    /\ transport[mav_conn] # "open"
    /\ ctl' = [pc |-> "idle", ret |-> "wait_failed"]
    /\ UNCHANGED <<rateVars, webVars, jarvisVars>>
    /\ UNCHANGED <<handlerVars, paramVars, telemVars, snapVars, tx_mav_msg, command_ack_status,
                   loop, watchdog, wdpc, timesync, call, upd, envVars, hist>>

\* start_message_loop(): a new _message_loop thread when connected
StartMessageLoop ==
    /\ ctl.pc = "start"
    /\ IF is_connected
       THEN /\ \E t \in Loops :
                /\ loop[t].pc = "off"
                /\ \A o \in Loops : o < t => loop[o].pc # "off"
                /\ loop' = [loop EXCEPT ![t].pc = "check"]
            /\ ctl' = [pc |-> "idle", ret |-> "started"]
       ELSE /\ loop' = loop
            /\ ctl' = [pc |-> "idle", ret |-> "not_started"]
    /\ UNCHANGED <<rateVars, webVars, jarvisVars>>
    /\ UNCHANGED <<handlerVars, paramVars, telemVars, snapVars, tx_mav_msg, command_ack_status,
                   watchdog, wdpc, timesync, call, upd, envVars, hist>>

\* disconnect(): is_connected = False, then close the transport
Disconnect ==
    /\ ctl.pc = "idle"
    /\ is_connected' = FALSE
    /\ IF mav_conn # 0
       THEN /\ transport' = [transport EXCEPT ![mav_conn] = "closed"]
            /\ inbox' = [inbox EXCEPT ![mav_conn] = NoMsg]
       ELSE UNCHANGED <<transport, inbox>>
    /\ ctl' = [pc |-> "idle", ret |-> "disconnected"]
    /\ hist' = HistDrop(hist)
    /\ UNCHANGED <<rateVars, webVars, jarvisVars>>
    /\ UNCHANGED <<mav_conn, last_heartbeat, heartbeat_timeout_flag, paramVars, telemVars, snapVars,
                   tx_mav_msg, command_ack_status, loop, watchdog, wdpc, timesync, call, upd,
                   now, sent>>

(* --------------- _check_heartbeat_timeout and _timesync_loop ----------- *)

\* _check_heartbeat_timeout of the watchdog started for k, at the top of an
\* iteration: the loop test and the comparison of the clock with last_heartbeat;
\* when the comparison is false the thread sleeps and comes back here
WatchdogStep(k) ==
    /\ k \in watchdog
    /\ wdpc[k] = "poll"
    /\ IF is_connected
       THEN /\ watchdog' = watchdog
            /\ wdpc' = [wdpc EXCEPT ![k] =
                   IF now - last_heartbeat > HEARTBEAT_TIMEOUT_S THEN "flag" ELSE "poll"]
       ELSE /\ watchdog' = watchdog \ {k}
            /\ wdpc' = [wdpc EXCEPT ![k] = "off"]
    /\ UNCHANGED <<rateVars, webVars, jarvisVars>>
    /\ UNCHANGED <<mav_conn, is_connected, last_heartbeat, heartbeat_timeout_flag, paramVars,
                   telemVars, snapVars, tx_mav_msg, command_ack_status, ctl, loop, timesync,
                   call, upd, envVars, hist>>

\* if not self.heartbeat_timeout_flag
WatchdogTestFlag(k) ==
    /\ k \in watchdog
    /\ wdpc[k] = "flag"
    /\ wdpc' = [wdpc EXCEPT ![k] = IF heartbeat_timeout_flag THEN "poll" ELSE "set"]
    /\ hist' = IF heartbeat_timeout_flag /\ Outage
               THEN [hist EXCEPT !.polled = TRUE] ELSE hist
    /\ UNCHANGED <<rateVars, webVars, jarvisVars>>
    /\ UNCHANGED <<handlerVars, paramVars, telemVars, snapVars, tx_mav_msg,
                   command_ack_status, ctl, loop, watchdog, timesync, call, upd, envVars>>

\* self.heartbeat_timeout_flag = True, then the sleep
WatchdogSetFlag(k) ==
    /\ k \in watchdog
    /\ wdpc[k] = "set"
    /\ heartbeat_timeout_flag' = TRUE
    /\ wdpc' = [wdpc EXCEPT ![k] = "poll"]
    /\ hist' = IF Outage
               THEN [hist EXCEPT !.polled = TRUE,
                                 !.raised = hist.raised +
                                     (IF heartbeat_timeout_flag THEN 0 ELSE 1)]
               ELSE hist
    /\ UNCHANGED <<rateVars, webVars, jarvisVars>>
    /\ UNCHANGED <<mav_conn, is_connected, last_heartbeat, paramVars, telemVars, snapVars,
                   tx_mav_msg, command_ack_status, ctl, loop, watchdog, timesync, call, upd,
                   envVars>>

\* one second passes (time.sleep(1) of the watchdog is one such period)
Tick ==
    /\ now < MaxNow
    /\ now' = now + 1
    /\ UNCHANGED <<rateVars, webVars, jarvisVars>>
    /\ UNCHANGED <<handlerVars, paramVars, telemVars, snapVars, threadVars, tx_mav_msg,
                   command_ack_status, call, upd, transport, inbox, sent, hist>>

\* one iteration of `while self.is_connected:` of the TIMESYNC sender started
\* for k; a failing timesync_send is caught inside the loop
TimesyncStep(k) ==
    /\ k \in timesync
    /\ timesync' = IF is_connected THEN timesync ELSE timesync \ {k}
    /\ UNCHANGED <<rateVars, webVars, jarvisVars>>
    /\ UNCHANGED <<handlerVars, paramVars, telemVars, snapVars, tx_mav_msg, command_ack_status,
                   ctl, loop, watchdog, wdpc, call, upd, envVars, hist>>


(* ---------------------------- specifications --------------------------- *)

IdleCall == [pc |-> "idle", name |-> "", id |-> 0, ret |-> FALSE,
             branch |-> "none", timer |-> "off"]

NoHistory == [acks |-> [c \in Callers |-> {}], early |-> {}, overlap |-> FALSE,
              dropped |-> [c \in Callers |-> FALSE], hbSeen |-> {},
              stream |-> <<>>, counts |-> {}, fired |-> 0, firedAt |-> {},
              polled |-> FALSE, raised |-> 0, hbAt |-> -1, pushed |-> <<>>,
              everPushed |-> FALSE, flushed |-> FALSE,
              copyOf |-> [c \in Consumers |-> <<>>], copies |-> {<<>>},
              alone |-> [c \in Consumers |-> TRUE],
              afterPush |-> [c \in Consumers |-> FALSE],
              full |-> [c \in Consumers |-> FALSE],
              pub |-> [alone |-> TRUE, copy |-> <<>>, afterPush |-> FALSE, full |-> FALSE],
              older |-> [c \in Consumers |-> {}], pubOlder |-> {},
              statsCalls |-> 0, win |-> [pkts |-> 0, bytes |-> 0], winStart |-> 0]

\* MavlinkHandler.__init__, and the globals of web_server as the module is loaded
NotStarted ==
    /\ mav_conn = 0
    /\ is_connected = FALSE
    /\ last_heartbeat = 0
    /\ heartbeat_timeout_flag = FALSE
    /\ params_dict = EmptyDict
    /\ param_count = 0
    /\ param_progress = <<0, 1>>
    /\ param_done = 0
    /\ rx_mav_msg = <<>>
    /\ tx_mav_msg = <<>>
    /\ command_ack_status = EmptyDict
    /\ pkt_count = 0
    /\ byte_count = 0
    /\ rate_timestamp = 0
    /\ pkt_rate = 0
    /\ byte_rate = 0
    /\ ai_mavlink_ctx = EmptyDict
    /\ telemetry_snapshot = <<>>
    /\ ctl = [pc |-> "idle", ret |-> "none"]
    /\ loop = [t \in Loops |-> [pc |-> "off", tr |-> 0, msg |-> NoMsg]]
    /\ watchdog = {}
    /\ wdpc = [k \in Transports |-> "off"]
    /\ timesync = {}
    /\ call = [c \in Callers |-> IdleCall]
    /\ upd = [n |-> 0, ret |-> "none", name |-> "", value |-> 0]
    /\ cons = [c \in Consumers |-> IdleConsumer]
    /\ mavlink_buffer = EmptyDict
    /\ mt = IdleRequest
    /\ delta = NotCalled
    /\ now = 0
    /\ transport = [tr \in Transports |-> "unopened"]
    /\ inbox = [tr \in Transports |-> NoMsg]
    /\ sent = 0
    /\ hist = NoHistory

Init ==
    /\ NotStarted
    /\ old_params = EmptyDict
    /\ new_params = EmptyDict

\* the handler after its first connect() and start_message_loop()
InitConnected ==
    /\ mav_conn = 1
    /\ is_connected = TRUE
    /\ last_heartbeat = 0
    /\ heartbeat_timeout_flag = FALSE
    /\ params_dict = EmptyDict
    /\ param_count = 0
    /\ param_progress = <<0, 1>>
    /\ param_done = 0
    /\ rx_mav_msg = <<>>
    /\ tx_mav_msg = <<>>
    /\ command_ack_status = EmptyDict
    /\ pkt_count = 0
    /\ byte_count = 0
    /\ rate_timestamp = 0
    /\ pkt_rate = 0
    /\ byte_rate = 0
    /\ ai_mavlink_ctx = EmptyDict
    /\ telemetry_snapshot = <<>>
    /\ ctl = [pc |-> "idle", ret |-> "started"]
    /\ loop = [t \in Loops |-> IF t = 1 THEN [pc |-> "check", tr |-> 0, msg |-> NoMsg]
                                ELSE [pc |-> "off", tr |-> 0, msg |-> NoMsg]]
    /\ watchdog = {1}
    /\ wdpc = [k \in Transports |-> IF k = 1 THEN "poll" ELSE "off"]
    /\ timesync = {1}
    /\ call = [c \in Callers |-> IdleCall]
    /\ upd = [n |-> 0, ret |-> "none", name |-> "", value |-> 0]
    /\ cons = [c \in Consumers |-> IdleConsumer]
    /\ mavlink_buffer = EmptyDict
    /\ mt = IdleRequest
    /\ old_params = EmptyDict
    /\ new_params = EmptyDict
    /\ delta = NotCalled
    /\ now = 0
    /\ transport = [tr \in Transports |-> IF tr = 1 THEN "open" ELSE "unopened"]
    /\ inbox = [tr \in Transports |-> NoMsg]
    /\ sent = 0
    /\ hist = [NoHistory EXCEPT !.hbSeen = {1}]

Dispatcher ==
    \/ \E t \in Loops : LoopCheck(t)
    \/ \E t \in Loops : LoopRecvMsg(t)
    \/ \E t \in Loops : LoopRecvTimeout(t)
    \/ \E t \in Loops : LoopRecvError(t)
    \/ \E t \in Loops : LoopProcess(t)

\* connection lifecycle: connect, start_message_loop, disconnect, reconnect.
\* The clock stands still in these runs (they are shorter than the heartbeat
\* timeout), so a watchdog never gets past its comparison in WatchdogStep.
Next ==
    \/ ConnectOpen
    \/ ConnectOpenFail
    \/ ConnectSkip
    \/ ConnectHeartbeat
    \/ ConnectWaitFail
    \/ StartMessageLoop
    \/ Disconnect
    \/ \E k \in Transports : WatchdogStep(k)
    \/ \E k \in Transports : TimesyncStep(k)
    \/ \E tr \in Transports : TransportBreak(tr)
    \/ \E tr \in Transports, m \in {Heartbeat, Attitude} : FcSend(tr, m, MaxConnMsgs)
    \/ Dispatcher

Spec == Init /\ [][Next]_vars

\* The scheduler runs every started thread: the thread inside connect() and
\* start_message_loop(), the dispatcher, the watchdog and the TIMESYNC sender
\* each take their next step when they can. Nothing obliges the flight
\* controller to send, the link to fail or a user to call connect/disconnect.
Fairness ==
    /\ WF_vars(ConnectSkip)
    /\ WF_vars(ConnectHeartbeat)
    /\ WF_vars(ConnectWaitFail)
    /\ WF_vars(StartMessageLoop)
    /\ WF_vars(Dispatcher)
    /\ WF_vars(\E k \in Transports : WatchdogStep(k))
    /\ WF_vars(\E k \in Transports : TimesyncStep(k))

FairSpec == Init /\ [][Next]_vars /\ Fairness

\* commands and their acknowledgements on an established session
NextCmd ==
    \/ \E c \in Callers, name \in CommandNames : CallBegin(c, name)
    \/ \E c \in Callers : CallClear(c)
    \/ \E c \in Callers : CallSend(c)
    \/ \E c \in Callers : CallCheck(c)
    \/ \E c \in Callers : WaitTimeout(c)
    \/ \E c \in Callers : CallAfterWait(c)
    \/ \E tr \in Transports, m \in AckMsgs : FcSend(tr, m, MaxCmdMsgs)
    \/ Disconnect
    \/ Dispatcher

SpecCmd == InitConnected /\ [][NextCmd]_vars

\* the same command sent by one caller after the other, or by both at once
NextRepeat ==
    \/ \E c \in Callers : CallBegin(c, "MAV_CMD_COMPONENT_ARM_DISARM")
    \/ \E c \in Callers : CallClear(c)
    \/ \E c \in Callers : CallSend(c)
    \/ \E c \in Callers : CallCheck(c)
    \/ \E c \in Callers : WaitTimeout(c)
    \/ \E c \in Callers : CallAfterWait(c)
    \/ \E tr \in Transports, m \in RepeatAckMsgs : FcSend(tr, m, MaxRepeatMsgs)
    \/ Disconnect
    \/ Dispatcher

SpecRepeat == InitConnected /\ [][NextRepeat]_vars

\* the parameter download on an established session
NextParam ==
    \/ \E n \in ParamNames, v \in ParamValues : UpdateParameter(n, v)
    \/ \E tr \in Transports, m \in ParamMsgs : FcSend(tr, m, MaxParamMsgs)
    \/ \E tr \in Transports : TransportBreak(tr)
    \/ Disconnect
    \/ Dispatcher

SpecParam == InitConnected /\ [][NextParam]_vars

\* sessions that follow one another on the same handler: the connection
\* lifecycle with parameters and acknowledgements arriving while connected
NextSession ==
    \/ ConnectOpen
    \/ ConnectOpenFail
    \/ ConnectSkip
    \/ ConnectHeartbeat
    \/ ConnectWaitFail
    \/ StartMessageLoop
    \/ Disconnect
    \/ \E k \in Transports : WatchdogStep(k)
    \/ \E k \in Transports : TimesyncStep(k)
    \/ \E tr \in Transports : TransportBreak(tr)
    \/ \E tr \in Transports, m \in SessionMsgs : FcSend(tr, m, MaxSessionMsgs)
    \/ Dispatcher

SpecSession == Init /\ [][NextSession]_vars

\* the heartbeat watchdog on an established session, with the clock running
NextWatch ==
    \/ Tick
    \/ \E k \in Transports : WatchdogStep(k)
    \/ \E k \in Transports : WatchdogTestFlag(k)
    \/ \E k \in Transports : WatchdogSetFlag(k)
    \/ \E tr \in Transports : FcSend(tr, Heartbeat, MaxWatchMsgs)
    \/ Disconnect
    \/ Dispatcher

SpecWatch == InitConnected /\ [][NextWatch]_vars

\* a long stream of telemetry into the ring buffer, flushed now and then
NextRing ==
    \/ \E tr \in Transports : FcSend(tr, Telemetry("ATTITUDE", sent + 1), MaxRingMsgs)
    \/ \E c \in Consumers : FlushRxQueue(c)
    \/ Disconnect
    \/ Dispatcher

SpecRing == InitConnected /\ [][NextRing]_vars

\* the two telemetry loops taking snapshots while the dispatcher pushes, on a
\* session that stays connected
NextTelem ==
    \/ \E tr \in Transports : FcSend(tr, TelemetryStream(sent + 1), MaxTelemMsgs)
    \/ \E t \in Loops : LoopCheck(t)
    \/ \E t \in Loops : LoopRecvMsg(t)
    \/ \E t \in Loops : LoopRecvTimeout(t)
    \/ \E t \in Loops : LoopProcess(t)
    \/ \E c \in Consumers : SnapshotCopy(c)
    \/ \E c \in Consumers : SnapshotBuild(c)
    \/ \E c \in Consumers : SnapshotPublish(c)
    \/ \E c \in Consumers : TelemetryLoopRead(c)
    \/ \E c \in Consumers : FlushRxQueue(c)

SpecTelem == InitConnected /\ [][NextTelem]_vars

\* POST /api/motor_test on an established session, while the dispatcher
\* receives heartbeats and the slow telemetry loop refreshes mavlink_buffer
NextMotor ==
    \/ \E args \in MotorTestArgs : MotorTest(args)
    \/ MotorTestCall
    \/ MotorTestReturn
    \/ \E c \in Callers : CallClear(c)
    \/ \E c \in Callers : CallSend(c)
    \/ \E c \in Callers : CallCheck(c)
    \/ \E c \in Callers : WaitTimeout(c)
    \/ \E c \in Callers : CallAfterWait(c)
    \/ SnapshotCopy("slow")
    \/ SnapshotBuild("slow")
    \/ SnapshotPublish("slow")
    \/ TelemetryLoopRead("slow")
    \/ \E tr \in Transports, m \in MotorMsgs : FcSend(tr, m, MaxMotorMsgs)
    \/ Disconnect
    \/ Dispatcher

SpecMotor == InitConnected /\ [][NextMotor]_vars

\* the dispatcher receiving one message after the other, of every kind
NextRoute ==
    \/ \E tr \in Transports, m \in RouteMsgs : FcSend(tr, m, MaxRouteMsgs)
    \/ \E t \in Loops : LoopCheck(t)
    \/ \E t \in Loops : LoopRecvMsg(t)
    \/ \E t \in Loops : LoopRecvTimeout(t)
    \/ \E t \in Loops : LoopProcess(t)

SpecRoute == InitConnected /\ [][NextRoute]_vars

\* the rate counters: the dispatcher counts what it receives while
\* update_system_health calls get_link_stats and the clock runs
NextStats ==
    \/ Tick
    \/ \E tr \in Transports : FcSend(tr, TelemetryStream(sent + 1), MaxStatsMsgs)
    \/ \E t \in Loops : LoopCheck(t)
    \/ \E t \in Loops : LoopRecvMsg(t)
    \/ \E t \in Loops : LoopRecvTimeout(t)
    \/ \E t \in Loops : LoopProcess(t)
    \/ GetLinkStats

SpecStats == InitConnected /\ [][NextStats]_vars

\* _compute_param_delta applied to every pair of parameter snapshots
InitDelta ==
    /\ NotStarted
    /\ old_params \in ParamSnapshots
    /\ new_params \in ParamSnapshots

NextDelta == CallComputeParamDelta

SpecDelta == InitDelta /\ [][NextDelta]_vars


(* ------------------ claims: commands and acknowledgements -------------- *)

\* the call of c went through send and wait and has returned
Resolved(c) == call[c].pc = "done" /\ call[c].branch \in {"ack", "nack", "timeout"}

\* c is the only caller there has been
SingleCaller(c) == \A o \in Callers \ {c} : call[o].pc = "idle"

\* C1: for a single caller with a known command name on a connected link, the
\* call reports success if and only if an accepting COMMAND_ACK (ACCEPTED,
\* TEMPORARILY_REJECTED, IN_PROGRESS) for its command id is recorded before the
\* wait timeout elapses; it reports failure when the recorded result is a
\* rejecting one and when no COMMAND_ACK for the id is recorded in time.
C1_SuccessIffAcceptingAck ==
    \A c \in Callers :
        (Resolved(c) /\ SingleCaller(c) /\ is_connected) =>
            /\ call[c].ret => hist.acks[c] \cap SuccessResults # {}
            /\ (hist.acks[c] # {} /\ hist.acks[c] \subseteq SuccessResults) => call[c].ret
            /\ hist.acks[c] \cap SuccessResults = {} => ~call[c].ret

\* C2: a caller waiting for command id X returns before its timeout has elapsed
\* only if a COMMAND_ACK whose command field equals X has been recorded; an ACK
\* for another id never makes it return.
C2_EarlyReturnOnlyOnOwnAck ==
    \A c \in Callers :
        (Resolved(c) /\ c \in hist.early) => hist.acks[c] # {}

\* the call of c returned without its wait timeout having elapsed
NotTimedOut(c) == c \in hist.early \/ call[c].timer = "off"

\* C3: two threads calling with the same command id, whatever the interleaving
\* with the dispatcher's recording of COMMAND_ACKs for that id, observe the same
\* resolved outcome (stated for two overlapping calls neither of which ran
\* into its timeout).
C3_SameIdSameOutcome ==
    \A c1, c2 \in Callers :
        (/\ c1 # c2
         /\ hist.overlap
         /\ Resolved(c1) /\ Resolved(c2)
         /\ NotTimedOut(c1) /\ NotTimedOut(c2)
         /\ call[c1].id = call[c2].id) => call[c1].ret = call[c2].ret

\* C10: a caller blocked in the wait when the connection is dropped (disconnect()
\* or the dispatcher loop exiting) returns the timed-out outcome.
C10_DroppedCallerTimesOut ==
    \A c \in Callers :
        (Resolved(c) /\ hist.dropped[c]) => call[c].branch = "timeout"


\* C26: a resolved command leaves no entry in command_ack_status: whenever no
\* send_mavlink_command_from_json call is in flight the map is empty, whatever
\* commands were sent and whatever COMMAND_ACKs were received.
C26_AckMapEmptyWhenIdle ==
    (\A c \in Callers : ~InFlight(c)) => command_ack_status = EmptyDict

\* C27: a result stored in command_ack_status for id X before a call for X
\* begins is never the outcome of that call: when the command frame is sent
\* the map holds for X only a result recorded after the clear of the call, and
\* the result the call returns on was recorded after its clear.
C27_StaleAckNeverReturned ==
    /\ [](\A c \in Callers :
            (call[c].pc \in {"send", "check", "waiting", "woken"}
                /\ call[c].id \in DOMAIN command_ack_status)
              => command_ack_status[call[c].id] \in hist.acks[c])
    /\ [][\A c \in Callers :
            (InFlight(c) /\ call'[c].pc = "done" /\ call'[c].branch \in {"ack", "nack"})
              => command_ack_status[call[c].id] \in hist.acks[c]]_vars

\* a first call returned on a FAILED acknowledgement, which stays in the map;
\* a second call for the same id began after the first had returned and
\* returned success on an ACCEPTED recorded after its clear
C27_Witness ==
    \E c1, c2 \in Callers :
        /\ call[c1].pc = "done" /\ call[c1].branch = "nack"
        /\ hist.acks[c1] = {MAV_RESULT_FAILED}
        /\ ~hist.overlap
        /\ sent = 2
        /\ call[c2].pc = "done" /\ call[c2].branch = "ack" /\ call[c2].ret
        /\ call[c2].id = call[c1].id
        /\ hist.acks[c2] = {MAV_RESULT_ACCEPTED}

\* C18: the result returned when no COMMAND_ACK arrives within the timeout
\* differs from the result returned for a rejecting COMMAND_ACK.
C18_TimeoutDistinctFromReject ==
    \A c1, c2 \in Callers :
        (/\ call[c1].pc = "done" /\ call[c1].branch = "timeout"
         /\ call[c2].pc = "done" /\ call[c2].branch = "nack")
            => call[c1].ret # call[c2].ret

\* C19: a call with a command name that is not in the command map returns
\* failure at once: nothing is sent, command_ack_status and the tx log are left
\* as they were, whatever the state of the handler.
C19_UnknownCommandFailsFast ==
    [][\A c \in Callers :
          (/\ call[c].pc = "idle"
           /\ call'[c].pc # "idle"
           /\ call'[c].name \notin DOMAIN mav_command_map)
              => /\ call'[c].pc = "done"
                 /\ ~call'[c].ret
                 /\ tx_mav_msg' = tx_mav_msg
                 /\ command_ack_status' = command_ack_status]_vars

\* an unknown name was refused on a connected handler that has sent a command
\* and holds its acknowledgement
C19_Witness ==
    /\ is_connected
    /\ \E c \in Callers : call[c].pc = "done" /\ call[c].branch = "unknown"
    /\ command_ack_status # EmptyDict
    /\ tx_mav_msg # <<>>


(* ----------------------- claims: parameter download -------------------- *)

\* the names of the PARAM_VALUE messages ingested so far
NamesIngested == {hist.stream[i][1] : i \in 1..Len(hist.stream)}

\* the position of the last ingested message for name n
LastIndexOf(n) ==
    CHOOSE i \in 1..Len(hist.stream) :
        /\ hist.stream[i][1] = n
        /\ \A j \in (i + 1)..Len(hist.stream) : hist.stream[j][1] # n

\* every PARAM_VALUE of the session announced the same param_count N > 0
UniformCount(N) == hist.counts = {N} /\ N > 0

\* the position in the stream of the message that brought the number of
\* distinct names to N, or 0 if there is none yet
CompletedAt(N) ==
    LET hits == {i \in 1..Len(hist.stream) :
                    /\ Cardinality({hist.stream[j][1] : j \in 1..i}) = N
                    /\ Cardinality({hist.stream[j][1] : j \in 1..(i - 1)}) < N}
    IN IF hits = {} THEN 0 ELSE CHOOSE i \in hits : TRUE

\* C4: in a session whose PARAM_VALUE messages all announce the same N > 0 the
\* completion notification on_params_received fires exactly once, at the
\* message that brings the number of distinct stored names to N, not before and
\* never again.
C4_CompletionFiresOnce ==
    \A N \in ParamCounts :
        UniformCount(N) =>
            IF CompletedAt(N) = 0
            THEN hist.fired = 0
            ELSE hist.fired = 1 /\ hist.firedAt = {CompletedAt(N)}

\* len(self.params_dict), the count the completion test compares with param_count
ReceivedCount == Cardinality(DOMAIN params_dict)

\* C5: params_dict maps each ingested name to the value of the most recent
\* message for that name, and the received count is the number of distinct
\* names: a duplicate overwrites the value and does not advance the count.
C5_LatestValuePerName ==
    /\ DOMAIN params_dict = NamesIngested
    /\ \A n \in NamesIngested : params_dict[n] = hist.stream[LastIndexOf(n)][2]
    /\ ReceivedCount = Cardinality(NamesIngested)

\* a duplicate with a new value was ingested after the table was complete for
\* N = 2: A=1, B=2, A=2
C5_Witness ==
    /\ hist.stream = <<<<"A", 1>>, <<"B", 2>>, <<"A", 2>>>>
    /\ params_dict = ("A" :> 2) @@ ("B" :> 2)
    /\ param_count = 2
    /\ ReceivedCount = 2

\* C6: update_parameter never modifies params_dict (sent, send raising, or not
\* connected); an entry changes only when the dispatcher ingests a PARAM_VALUE
\* message for that name.
C6_UpdateLeavesTable ==
    [][/\ upd' # upd => params_dict' = params_dict
       /\ params_dict' # params_dict =>
            \E t \in Loops :
                /\ loop[t].pc = "process"
                /\ loop'[t].pc # "process"
                /\ loop[t].msg.type = "PARAM_VALUE"
                /\ \A n \in DOMAIN params_dict' :
                      (n \notin DOMAIN params_dict \/ params_dict'[n] # params_dict[n])
                          => n = loop[t].msg.param_id]_vars

\* a parameter set was sent for a stored name and the stored value is still
\* the old one
C6_Witness ==
    /\ upd.ret = "sent"
    /\ upd.name \in DOMAIN params_dict
    /\ params_dict[upd.name] # upd.value


\* C20: when a PARAM_VALUE announces param_count = 0 the completion is
\* reported at once (on_params_received is called for that message).
C20_ZeroCountCompletes ==
    [][\A t \in Loops :
          (/\ loop[t].pc = "process"
           /\ loop'[t].pc # "process"
           /\ loop[t].msg.type = "PARAM_VALUE"
           /\ loop[t].msg.param_count = 0)
              => hist'.fired = hist.fired + 1]_vars


\* update_system_health: total > 0 and downloaded >= total is reported as "Complete"
ParamStatusComplete == param_count > 0 /\ ReceivedCount >= param_count

\* C21: whatever the arrival order of the PARAM_VALUE messages, param_progress
\* stays within 0..100 and is 100 exactly when the table is Complete.
C21_ProgressFullIffComplete ==
    /\ 0 <= param_progress[1]
    /\ param_progress[1] <= 100 * param_progress[2]
    /\ (param_progress[1] = 100 * param_progress[2]) <=> ParamStatusComplete


(* -------------------------- claims: dispatcher loop -------------------- *)

\* C24: from inside the dispatcher loop the connection is torn down
\* (is_connected set to false, the loop left) only when the transport receive
\* fails; a receive timeout changes no state and the loop goes on; an error
\* raised while one received message is handled leaves the loop running and
\* is_connected as it was.
C24_OnlyReceiveFailureTearsDown ==
    [][\A t \in Loops :
          /\ (loop'[t].pc = "done" /\ loop[t].pc # "done" /\ is_connected /\ ~is_connected')
                => (loop[t].pc = "recv" /\ transport[loop[t].tr] # "open")
          /\ (loop[t].pc = "recv" /\ loop'[t].pc = "check")
                => (is_connected' = is_connected /\ UNCHANGED <<paramVars, telemVars,
                                                                command_ack_status>>)
          /\ (loop[t].pc = "process" /\ loop'[t].pc # "process")
                => (loop'[t].pc = "check" /\ is_connected' = is_connected)]_vars


\* the heartbeat state, the parameter engine and the command-ACK map
HeartbeatState == <<last_heartbeat, heartbeat_timeout_flag>>
ParamEngine == <<params_dict, param_count, param_progress, param_done>>
AckMap == command_ack_status

\* what a message does to its own destination
Delivered(m) ==
    /\ m.type = "HEARTBEAT" => (last_heartbeat' = now /\ ~heartbeat_timeout_flag')
    /\ m.type = "PARAM_VALUE" =>
            (m.param_id \in DOMAIN params_dict' /\ params_dict'[m.param_id] = m.param_value)
    /\ m.type = "COMMAND_ACK" =>
            (m.command \in DOMAIN AckMap' /\ AckMap'[m.command] = m.result)

\* a message leaves the two destinations that are not its own as they were
OthersUntouched(m) ==
    /\ m.type # "HEARTBEAT" => UNCHANGED HeartbeatState
    /\ m.type # "PARAM_VALUE" => UNCHANGED ParamEngine
    /\ m.type # "COMMAND_ACK" => UNCHANGED AckMap

\* C29 as stated: each message goes to exactly one destination: HEARTBEAT,
\* PARAM_VALUE and COMMAND_ACK only to the heartbeat state, the parameter
\* engine and the command-ACK map, and only a message of another type is
\* appended to the ring buffer.
C29_RoutedToOneDestination ==
    [][\A t \in Loops :
          (loop[t].pc = "process" /\ loop'[t].pc # "process") =>
              /\ Delivered(loop[t].msg)
              /\ OthersUntouched(loop[t].msg)
              /\ rx_mav_msg' =
                    IF loop[t].msg.type \in {"HEARTBEAT", "PARAM_VALUE", "COMMAND_ACK"}
                    THEN rx_mav_msg
                    ELSE DequeAppend(rx_mav_msg, loop[t].msg, RxMaxLen)]_vars

\* C29 amended: every message handled by _process_message is appended to the
\* ring buffer, whatever its type; besides that HEARTBEAT, PARAM_VALUE and
\* COMMAND_ACK update only the heartbeat state, the parameter engine and the
\* command-ACK map, and a message of another type updates none of the three.
C29_PushedAndRouted ==
    [][\A t \in Loops :
          (loop[t].pc = "process" /\ loop'[t].pc # "process") =>
              /\ Delivered(loop[t].msg)
              /\ OthersUntouched(loop[t].msg)
              /\ rx_mav_msg' = DequeAppend(rx_mav_msg, loop[t].msg, RxMaxLen)]_vars

\* one message of each kind was handled: all four are in the ring buffer and
\* each of the three destinations holds what its message brought
C29_Witness ==
    /\ {rx_mav_msg[i].type : i \in 1..Len(rx_mav_msg)} =
            {"HEARTBEAT", "PARAM_VALUE", "COMMAND_ACK", "ATTITUDE"}
    /\ hist.hbAt >= 0
    /\ params_dict = ("A" :> 1)
    /\ command_ack_status = (MAV_CMD_COMPONENT_ARM_DISARM :> MAV_RESULT_ACCEPTED)


(* ----------------------------- claims: motor test --------------------- *)

\* C23: a MAV_CMD_DO_MOTOR_TEST command is never sent while the HEARTBEAT held
\* in mavlink_buffer has the armed bit set; it is sent only when the drone is
\* connected, that HEARTBEAT is not armed and motor, throttle and duration are
\* within 1-4, 0-100 and 1-10.
C23_NoMotorTestWhileArmed ==
    [][tx_mav_msg' = Append(tx_mav_msg, <<"COMMAND_SENT", "MAV_CMD_DO_MOTOR_TEST">>) =>
          /\ is_connected
          /\ ~BufferArmed
          /\ mt.args[1] \in 1..4
          /\ mt.args[2] \in 0..100
          /\ mt.args[3] \in 1..10]_vars


(* -------------------------- claims: link statistics -------------------- *)

\* C28: every get_link_stats() call returns the rates of the window since the
\* previous call, packets / elapsed and bytes / elapsed, and resets the packet
\* counter, the byte counter and the start of the window.
C28_StatsSampleAndReset ==
    [][hist'.statsCalls # hist.statsCalls =>
          /\ pkt_count' = 0
          /\ byte_count' = 0
          /\ rate_timestamp' = now
          /\ now > hist.winStart =>
                /\ pkt_rate' = RoundTenths(hist.win.pkts, now - hist.winStart)
                /\ byte_rate' = RoundTenths(hist.win.bytes, now - hist.winStart)]_vars


(* -------------------------- claims: parameter delta -------------------- *)

\* the inverse of a delta applied to B: changed keys get their old value
\* back, removed keys are re-added, added keys are deleted
ApplyInverse(B, dl) ==
    IF dl.ret = "none" THEN B
    ELSE LET added == {k \in DOMAIN dl.d : dl.d[k].old = Str("<new>")}
             keys == (DOMAIN B \cup DOMAIN dl.d) \ added
         IN [k \in keys |-> IF k \in DOMAIN dl.d THEN dl.d[k].old[2] ELSE B[k]]

\* C22: for all snapshots A and B, an empty A or B included, the inverse of
\* _compute_param_delta(A, B) applied to B gives A, and the delta of two equal
\* snapshots is None.
C22_InverseDeltaRestores ==
    delta # NotCalled =>
        /\ ApplyInverse(new_params, delta) = old_params
        /\ old_params = new_params => delta = None


(* ---------------------- claims: connection lifecycle ------------------- *)

ConnectFailed == ctl.ret \in {"open_failed", "wait_failed"}

C11_ReconnectStartsClean ==
    [][(ctl.pc = "wait_hb" /\ ctl'.pc = "start") =>
          /\ params_dict' = EmptyDict
          /\ param_count' = 0
          /\ param_progress'[1] = 0
          /\ command_ack_status' = EmptyDict]_vars

\* C8: connect() always returns: with the transport open and no heartbeat
\* arriving it gives up after an overall timeout and returns failure.
C8_ConnectReturns == (ctl.pc = "wait_hb") ~> (ctl.pc # "wait_hb")

\* C9: the transport is never read (recv_match) by two dispatcher threads at once.
C9_SingleReader ==
    \A t1, t2 \in Loops :
        (t1 # t2 /\ loop[t1].pc = "recv" /\ loop[t2].pc = "recv")
            => loop[t1].tr # loop[t2].tr


\* C25: the background loops of a session end after disconnect(), also when
\* connect() succeeds again shortly afterwards: at no time are two watchdog
\* loops or two TIMESYNC loops running on the handler, and while a session is
\* connected no watchdog or TIMESYNC loop of an earlier session is running.
C25_LoopsEndWithSession ==
    /\ Cardinality(watchdog) <= 1
    /\ Cardinality(timesync) <= 1
    /\ is_connected => watchdog \cup timesync \subseteq {mav_conn}


(* ------------------------ claims: heartbeat watchdog ------------------- *)

\* C12: while connected, in every outage (now - last_heartbeat > 5) the flag
\* goes from false to true exactly once: never more than once, and once a
\* watchdog poll of the outage has completed it has been raised in that outage.
C12_RaisedOncePerOutage ==
    /\ hist.raised <= 1
    /\ (is_connected /\ Outage /\ hist.polled) => hist.raised = 1

\* C13: after the dispatcher has processed a HEARTBEAT the flag is false for as
\* long as no more than 5 s have passed since that heartbeat.
C13_FlagClearAfterHeartbeat ==
    (hist.hbAt >= 0 /\ now - hist.hbAt <= HEARTBEAT_TIMEOUT_S) => ~heartbeat_timeout_flag

(* ------------------------ claims: telemetry buffer --------------------- *)

TypesIn(q) == {q[i].type : i \in 1..Len(q)}

\* the last message of type t in q
LastOfType(q, t) ==
    q[CHOOSE i \in 1..Len(q) : q[i].type = t /\ \A j \in (i + 1)..Len(q) : q[j].type # t]

\* ctx has exactly one entry per type of q, the last message of that type
IsLatestPerType(ctx, q) ==
    /\ DOMAIN ctx = TypesIn(q)
    /\ \A t \in TypesIn(q) : ctx[t] = LastOfType(q, t)

\* C15: after a snapshot_rx_queue() call that ran with no other snapshot call
\* running, ai_mavlink_ctx has exactly one entry per message type of the copy
\* taken by that call, the last message of the type in arrival order; right
\* after flush_rx_queue() the ring buffer is empty.
C15_SnapshotIsLatestPerType ==
    /\ hist.pub.alone => IsLatestPerType(ai_mavlink_ctx, hist.pub.copy)
    /\ hist.flushed => rx_mav_msg = <<>>

\* a call running alone copied ATTITUDE 1, GPS_RAW_INT 2, ATTITUDE 3 and
\* published the two latest; the buffer was flushed afterwards
C15_Witness ==
    /\ hist.pub.alone
    /\ hist.pub.copy = <<Telemetry("ATTITUDE", 1), Telemetry("GPS_RAW_INT", 2),
                         Telemetry("ATTITUDE", 3)>>
    /\ ai_mavlink_ctx = ("ATTITUDE" :> Telemetry("ATTITUDE", 3)) @@
                        ("GPS_RAW_INT" :> Telemetry("GPS_RAW_INT", 2))
    /\ hist.flushed
    /\ rx_mav_msg = <<>>

\* C16: with the dispatcher pushing and two consumers inside snapshot_rx_queue()
\* at once, every map published in ai_mavlink_ctx is the latest-per-type fold
\* of what the ring buffer held at one single instant.
C16_PublishedFromOneInstant ==
    \E b \in hist.copies : IsLatestPerType(ai_mavlink_ctx, b)

\* a map was published by a call that overlapped another one, from a buffer
\* that held several messages
C16_Witness ==
    /\ ~hist.pub.alone
    /\ Cardinality(DOMAIN ai_mavlink_ctx) = 2
    /\ \E c \in Consumers : InSnapshot(c)

C30_ReadsNoOlderView ==
    \A c \in Consumers : cons[c].pc = "read" => c \notin hist.pubOlder

====
